---- MODULE Spec2Model ----
(***************************************************************************)
(* Lumina: a retrieval-augmented chat service.  A PDF is uploaded, split   *)
(* into overlapping word windows, embedded and indexed; questions are      *)
(* answered by retrieving chunks, building a prompt, calling a local model *)
(* and parsing its mixed natural-language / JSON reply.                    *)
(*                                                                         *)
(* Sources modelled: src/app.py, src/document_utils.py, src/faiss_utils.py,*)
(* src/ollama_utils.py, src/app_llm_prompt_helpers_Version2.py.            *)
(***************************************************************************)
EXTENDS Integers, Sequences, FiniteSets, TLC

VARIABLES
    chunks,           \* app.py global `chunks`: None or a list of chunk texts
    faiss_index,      \* app.py global `faiss_index`: None or an index
    embedding_model,  \* app.py global `embedding_model`: None or "loaded"
    req,              \* the request handled last
    resp,             \* its response
    calls,            \* the external collaborators it called, in order
    retrieved,        \* ask's local `retrieved` in that request
    span,             \* ask's locals structured, start_idx, end_idx in that request
    last_ok,          \* history: the document of the last upload answered 200 (0: none)
    scripted,         \* SpecParse: the text the model server answers with
    ck,               \* the chunking loop of pdf_to_chunks (locals and position)
    pb,               \* the last prompt built by one of the two prompt builders
    thr               \* SpecConc: the position and locals of the two request threads

vars == <<chunks, faiss_index, embedding_model, req, resp, calls, retrieved, span,
          last_ok, scripted, ck, pb, thr>>

None == "None"

Min(a, b) == IF a < b THEN a ELSE b
Max(a, b) == IF a > b THEN a ELSE b

\* Python slice s[i:j] of a list (0-based, negative indices count from the end,
\* out-of-range indices are clamped).
PyIndex(k, n) == IF k < 0 THEN Max(k + n, 0) ELSE Min(k, n)
PySlice(s, i, j) ==
    LET a == PyIndex(i, Len(s))
        b == PyIndex(j, Len(s))
    IN  IF a < b THEN SubSeq(s, a + 1, b) ELSE <<>>
\* s[i:]
PyFrom(s, i) == PySlice(s, i, Len(s))
\* s[:j]
PyUpTo(s, j) == PySlice(s, 0, j)

RECURSIVE SeqsUpTo(_, _)
\* every sequence over S of length 0..n
SeqsUpTo(S, n) ==
    IF n = 0 THEN {<<>>}
    ELSE LET shorter == SeqsUpTo(S, n - 1)
         IN  shorter \cup {Append(s, x) : s \in {t \in shorter : Len(t) = n - 1}, x \in S}

(***************************************************************************)
(* document_utils.pdf_to_chunks: the sliding window over the word list.    *)
(* A word is a non-empty whitespace-free token; a chunk text is the words  *)
(* of the window joined by single spaces, represented by the window's      *)
(* word sequence (the join is one-to-one on such words).                   *)
(***************************************************************************)
MaxWords == 5
MaxParam == 3
WordSet == {"a", "b"}

\* line 41: step = chunk_size - overlap if chunk_size > overlap else chunk_size
StepDropsOverlap(chunk_size, overlap) == chunk_size
StepAlwaysDifference(chunk_size, overlap) == chunk_size - overlap
ChunkStep(chunk_size, overlap) ==
    IF chunk_size > overlap THEN chunk_size - overlap ELSE chunk_size

\* line 45: chunk_words = words[i:i + chunk_size]
WindowOneTooLong(words, i, chunk_size) == PySlice(words, i, i + chunk_size + 1)
ChunkWindow(words, i, chunk_size) == PySlice(words, i, i + chunk_size)

\* lines 46-50: the chunk text is appended only when it is not blank
ChunkAppend(acc, chunk_words) ==
    IF chunk_words # <<>> THEN Append(acc, chunk_words) ELSE acc

\* lines 43-56 as a whole
RECURSIVE ChunkLoop(_, _, _, _, _)
ChunkLoop(words, i, chunk_size, step, acc) ==
    IF i < Len(words)
    THEN LET acc2 == ChunkAppend(acc, ChunkWindow(words, i, chunk_size))
         IN  IF step <= 0 THEN acc2
             ELSE ChunkLoop(words, i + step, chunk_size, step, acc2)
    ELSE acc

\* lines 29-64 after text extraction: `words` is combined_text.split()
pdf_to_chunks(words, chunk_size, overlap) ==
    ChunkLoop(words, 0, chunk_size, ChunkStep(chunk_size, overlap), <<>>)

\* the same loop, one iteration per step
CkIdle == [pc |-> "idle", words |-> <<>>, chunk_size |-> 0, overlap |-> 0,
           step |-> 0, i |-> 0, chunks |-> <<>>]

CkInputs ==
    {[pc |-> "loop", words |-> w, chunk_size |-> cs, overlap |-> ov,
      step |-> ChunkStep(cs, ov), i |-> 0, chunks |-> <<>>] :
        w \in SeqsUpTo(WordSet, MaxWords) \ {<<>>},
        cs \in -MaxParam..MaxParam, ov \in -MaxParam..MaxParam}

\* line 43 true: lines 45-56
ChunkIter ==
    /\ ck.pc = "loop"
    /\ ck.i < Len(ck.words)
    /\ ck' = [ck EXCEPT
                !.chunks = ChunkAppend(@, ChunkWindow(ck.words, ck.i, ck.chunk_size)),
                !.i = @ + ck.step,
                !.pc = IF ck.step <= 0 THEN "done" ELSE "loop"]
    /\ UNCHANGED <<chunks, faiss_index, embedding_model, req, resp, calls, retrieved, span,
                   last_ok, scripted, pb, thr>>

\* line 43 false: the loop is left, line 64 returns
ChunkReturn ==
    /\ ck.pc = "loop"
    /\ ~(ck.i < Len(ck.words))
    /\ ck' = [ck EXCEPT !.pc = "done"]
    /\ UNCHANGED <<chunks, faiss_index, embedding_model, req, resp, calls, retrieved, span,
                   last_ok, scripted, pb, thr>>

\* app.py lines 14-17: the globals at start-up, no request handled yet
IdleSession ==
    /\ chunks = [none |-> TRUE, list |-> <<>>]          \* None
    /\ faiss_index = [none |-> TRUE, vectors |-> <<>>]   \* None
    /\ embedding_model = None
    /\ req = [handler |-> "none"]
    /\ resp = [handler |-> "none", status |-> 0]
    /\ calls = <<>>
    /\ retrieved = <<>>
    /\ span = [parsed |-> [ok |-> FALSE, kind |-> "none", answer |-> <<>>, sources |-> <<>>],
               start |-> -1, end |-> -1]
    /\ last_ok = 0
    /\ thr = [up |-> [pc |-> "idle"], ask |-> [pc |-> "idle"]]

InitChunk == IdleSession /\ scripted = <<>> /\ ck \in CkInputs /\ pb = [fn |-> "none"]
NextChunk == ChunkIter \/ ChunkReturn
SpecChunk == InitChunk /\ [][NextChunk]_vars
\* the interpreter keeps running the loop: a step that can be taken is taken
SpecChunkFair == SpecChunk /\ WF_vars(NextChunk)

(***************************************************************************)
(* Text.  A model reply (and a question) is a sequence of tokens; an index *)
(* into a text counts tokens.  Each token stands for a literal substring:  *)
(*   "w"  a word of natural language      " "  whitespace                  *)
(*   "{" "}"  braces                      "A"  the member "answer":"a"     *)
(*   "K"  a key and its colon  "k":       "L"  the JSON list [1]           *)
(*   "N"  the JSON literal null           "a"  the text of the answer field*)
(*   "S"  <<<JSON_START>>>                "E"  <<<JSON_END>>>              *)
(*   "J"  the fence opener ```json        "F"  the fence ```               *)
(*   "Q"  the member "sources":["..."], one entry of 121 characters        *)
(*   "R"  the label  Source 1:            "W"  121 characters of prose     *)
(* No token holds a line break; " " is a space.  Tokens is the alphabet of *)
(* the replies SpecParse enumerates.                                       *)
(***************************************************************************)
Tokens == {"w", " ", "{", "}", "A", "K", "L", "N", "S", "E", "J", "F"}

RECURSIVE LStrip(_)
LStrip(t) == IF t # <<>> /\ Head(t) = " " THEN LStrip(Tail(t)) ELSE t
RECURSIVE RStrip(_)
RStrip(t) == IF t # <<>> /\ t[Len(t)] = " " THEN RStrip(SubSeq(t, 1, Len(t) - 1)) ELSE t
\* str.strip()
Strip(t) == RStrip(LStrip(t))

\* len() of the literal text of a token
TokChars(tok) ==
    CASE tok \in {"w", " ", "{", "}", "a"} -> 1
      [] tok = "A" -> 12
      [] tok = "K" -> 4
      [] tok = "L" -> 3
      [] tok = "N" -> 4
      [] tok = "S" -> 16
      [] tok = "E" -> 14
      [] tok = "J" -> 7
      [] tok = "F" -> 3
      [] tok = "Q" -> 135
      [] tok = "R" -> 9
      [] tok = "W" -> 121
RECURSIVE Chars(_)
\* len(text)
Chars(t) == IF t = <<>> THEN 0 ELSE TokChars(Head(t)) + Chars(Tail(t))

\* str.find(token, from): 0-based index of the first occurrence at or after
\* `from`, -1 when there is none
Find(t, tok, from) ==
    LET hits == {i \in from..(Len(t) - 1) : t[i + 1] = tok}
    IN  IF hits = {} THEN -1 ELSE CHOOSE i \in hits : \A j \in hits : i <= j

\* 1-based position of the first non-whitespace token at or after position i
\* (Len(t) + 1 when there is none)
RECURSIVE SkipWs(_, _)
SkipWs(t, i) == IF i <= Len(t) /\ t[i] = " " THEN SkipWs(t, i + 1) ELSE i

TokAt(t, i) == IF i >= 1 /\ i <= Len(t) THEN t[i] ELSE "eof"

\* the JSON decoder on one value starting at 1-based position i: the position
\* after the value, or 0 when no JSON value starts there
RECURSIVE JsonValueEnd(_, _)
JsonValueEnd(t, i) ==
    IF TokAt(t, i) \in {"L", "N"} THEN i + 1
    ELSE IF TokAt(t, i) # "{" THEN 0
    ELSE LET j == SkipWs(t, i + 1)
         IN  IF TokAt(t, j) = "}" THEN j + 1
             ELSE IF TokAt(t, j) \in {"A", "Q"}
                  THEN LET k == SkipWs(t, j + 1)
                       IN  IF TokAt(t, k) = "}" THEN k + 1 ELSE 0
             ELSE IF TokAt(t, j) = "K"
                  THEN LET v == JsonValueEnd(t, SkipWs(t, j + 1))
                           k == SkipWs(t, v)
                       IN  IF v # 0 /\ TokAt(t, k) = "}" THEN k + 1 ELSE 0
             ELSE 0

JsonFail == [ok |-> FALSE, kind |-> "none", answer |-> <<>>, sources |-> <<>>]

\* json.loads(text): surrounding whitespace is allowed, the whole text must be
\* one JSON value.  kind is the Python type of the result; answer is the value
\* of a dict's "answer" key (<<>> when the key is absent); sources is the list
\* under its "sources" key, each entry given by its number of characters.
json_loads(text) ==
    LET t == Strip(text)
    IN  IF t # <<>> /\ JsonValueEnd(t, 1) = Len(t) + 1
        THEN [ok |-> TRUE,
              kind |-> IF t[1] = "{" THEN "dict" ELSE IF t[1] = "L" THEN "list" ELSE "NoneType",
              answer |-> IF t[1] = "{" /\ TokAt(t, SkipWs(t, 2)) = "A" THEN <<"a">> ELSE <<>>,
              sources |-> IF t[1] = "{" /\ TokAt(t, SkipWs(t, 2)) = "Q" THEN <<121>> ELSE <<>>]
        ELSE JsonFail

NoSpan == [parsed |-> JsonFail, start |-> -1, end |-> -1]

\* app.py lines 89-101: the text between the explicit markers
MarkerSpan(text) ==
    IF Find(text, "S", 0) # -1 /\ Find(text, "E", 0) # -1
    THEN LET s == Find(text, "S", 0) + 1
             e == Find(text, "E", s)
         IN  IF e > s /\ json_loads(PySlice(text, s, e)).ok
             THEN [parsed |-> json_loads(PySlice(text, s, e)), start |-> s, end |-> e]
             ELSE NoSpan
    ELSE NoSpan

\* the closing ``` of the fenced pattern also matches the first three
\* characters of a later ```json
IsFence(tok) == tok \in {"F", "J"}

\* the regular expression of line 104 anchored at an opener at 0-based index j:
\* ```json \s* ( \{ [\s\S]*? \} ) \s* ```  ; the 0-based [start, end) of group 1
FenceMatchAt(text, j) ==
    LET b == SkipWs(text, j + 2)
        ends == {c \in (b + 1)..Len(text) :
                    text[c] = "}" /\ IsFence(TokAt(text, SkipWs(text, c + 1)))}
    IN  IF TokAt(text, j + 1) = "J" /\ TokAt(text, b) = "{" /\ ends # {}
        THEN [found |-> TRUE, start |-> b - 1,
              end |-> CHOOSE c \in ends : \A d \in ends : c <= d]
        ELSE [found |-> FALSE, start |-> -1, end |-> -1]

\* re.search: the match at the leftmost opener that matches
FenceSearch(text) ==
    LET at == {j \in 0..(Len(text) - 1) : FenceMatchAt(text, j).found}
    IN  IF at = {} THEN [found |-> FALSE, start |-> -1, end |-> -1]
        ELSE FenceMatchAt(text, CHOOSE j \in at : \A k \in at : j <= k)

\* app.py lines 104-113
FenceSpan(text) ==
    LET m == FenceSearch(text)
    IN  IF m.found /\ json_loads(PySlice(text, m.start, m.end)).ok
        THEN [parsed |-> json_loads(PySlice(text, m.start, m.end)),
              start |-> m.start, end |-> m.end]
        ELSE NoSpan

\* app.py lines 121-131: 0-based index of the brace closing the one at `first`,
\* -1 when the braces never balance
RECURSIVE MatchBrace(_, _, _)
MatchBrace(text, i, depth) ==
    IF i >= Len(text) THEN -1
    ELSE IF text[i + 1] = "{" THEN MatchBrace(text, i + 1, depth + 1)
    ELSE IF text[i + 1] = "}"
         THEN IF depth - 1 = 0 THEN i ELSE MatchBrace(text, i + 1, depth - 1)
    ELSE MatchBrace(text, i + 1, depth)

\* app.py lines 115-141
BraceSpan(text) ==
    LET first == Find(text, "{", 0)
        end_idx == IF first = -1 THEN -1 ELSE MatchBrace(text, first, 0)
    IN  IF first # -1 /\ end_idx # -1 /\ json_loads(PySlice(text, first, end_idx + 1)).ok
        THEN [parsed |-> json_loads(PySlice(text, first, end_idx + 1)),
              start |-> first, end |-> end_idx + 1]
        ELSE NoSpan

\* app.py lines 78-141.  `text` is a str or None (the empty text stands for
\* both falsy cases of line 83).
_extract_json_span(text) ==
    IF text = <<>> THEN NoSpan
    ELSE IF MarkerSpan(text) # NoSpan THEN MarkerSpan(text)
    ELSE IF FenceSpan(text) # NoSpan THEN FenceSpan(text)
    ELSE BraceSpan(text)

(***************************************************************************)
(* ollama_utils: the model client.  The outcome of the HTTP call and of    *)
(* the command line are inputs.  A returned value is None, a str or (from  *)
(* the API only) a dict/list found under the "response" key.               *)
(***************************************************************************)
RetNone == [type |-> "None", text |-> <<>>]
RetStr(t) == [type |-> "str", text |-> t]
RetObj == [type |-> "obj", text |-> <<"{", "K", " ", "L", "}">>]

\* Python truthiness of a returned value
Truthy(v) == v.type = "obj" \/ (v.type = "str" /\ v.text # <<>>)

\* ollama_utils.py lines 9-40.  api.kind: "error" (connection, HTTP status or
\* decoding error), "text" (the text found, "" when every key is empty),
\* "obj" (a dict or list under "response").
query_ollama_api(api) ==
    IF api.kind = "error" THEN RetNone
    ELSE IF api.kind = "obj" THEN RetObj
    ELSE RetStr(api.text)

\* ollama_utils.py lines 42-71.  cli.kind: "error" (non-zero exit, timeout,
\* exception) or "out" (exit code 0 with the given stdout).
query_ollama_subprocess(cli) ==
    IF cli.kind = "error" THEN RetNone ELSE RetStr(Strip(cli.text))

\* line 80: the fallback is taken when the API result is falsy
FallbackAlways(v) == TRUE
NeedsFallback(v) == ~Truthy(v)

\* lines 81-87: json.dumps of a dict or list, else str(result).strip()
ApiResultText(v) == IF v.type = "obj" THEN RetStr(v.text) ELSE RetStr(Strip(v.text))

\* ollama_utils.py lines 73-91: the value returned and the calls made, in order
query_ollama(prompt, api, cli) ==
    LET r == query_ollama_api(api)
        first == <<[op |-> "api", prompt |-> prompt, returned |-> r]>>
    IN  IF NeedsFallback(r)
        THEN [result |-> query_ollama_subprocess(cli),
              calls |-> Append(first, [op |-> "cli", prompt |-> prompt,
                                       returned |-> query_ollama_subprocess(cli)])]
        ELSE [result |-> ApiResultText(r), calls |-> first]

(***************************************************************************)
(* faiss_utils: the flat index.  An embedding is abstracted to what        *)
(* identifies the embedded text (its first word and its number of words);  *)
(* the similarity order of a search is an input.                           *)
(***************************************************************************)
NoneIndex == [none |-> TRUE, vectors |-> <<>>]

\* SentenceTransformer.encode: one vector per text
Embed(text) == [first |-> text[1], n |-> Len(text)]
Encode(texts) == [k \in 1..Len(texts) |-> Embed(texts[k])]

\* faiss_utils.py lines 4-31: embeddings.shape[1] raises on an empty array
build_faiss_index(embeddings) ==
    IF Len(embeddings) = 0 THEN [ok |-> FALSE, index |-> NoneIndex]
    ELSE [ok |-> TRUE, index |-> [none |-> FALSE, vectors |-> embeddings]]

ntotal(index) == Len(index.vectors)

RECURSIVE Arrangements(_, _)
\* the sequences of m distinct elements of S
Arrangements(S, m) ==
    IF m = 0 THEN {<<>>}
    ELSE UNION {{Append(a, x) : x \in S \ {a[k] : k \in 1..Len(a)}} :
                    a \in Arrangements(S, m - 1)}

\* faiss_utils.py lines 33-57: index.search returns top_k ids, best first: the
\* min(ntotal, top_k) nearest vectors, then -1 for the places it cannot fill
search_index(index, top_k) ==
    LET m == Min(ntotal(index), top_k)
    IN  {a \o [k \in 1..(top_k - m) |-> -1] : a \in Arrangements(0..(ntotal(index) - 1), m)}

(***************************************************************************)
(* The prompt builders.  A prompt is the sequence of its parts, in the     *)
(* order they are joined: the instructions, the document context, the      *)
(* history turns kept, the question.                                       *)
(***************************************************************************)
MaxHistory == 9
MaxTurnsParam == 4

\* app.py lines 185-196: the context block over at most max_chunks chunks
ContextBlock(retrieved_chunks, max_chunks) ==
    [kind |-> "context", excerpts |-> PyUpTo(retrieved_chunks, max_chunks)]

\* app.py line 202: conversation_history[-8:]
SoftHistoryTurns == 8
SoftRecent(conversation_history) ==
    PyFrom(conversation_history, -SoftHistoryTurns)

\* app.py lines 161-210
_build_soft_prompt(user_question, retrieved_chunks, conversation_history, max_chunks) ==
    <<[kind |-> "system"], ContextBlock(retrieved_chunks, max_chunks)>>
    \o [k \in 1..Len(SoftRecent(conversation_history)) |->
          [kind |-> "history", role |-> SoftRecent(conversation_history)[k].role,
           content |-> SoftRecent(conversation_history)[k].content]]
    \o <<[kind |-> "question", content |-> user_question]>>

\* app_llm_prompt_helpers_Version2.py line 51:
\* (conversation_history or [])[-max_history_turns:]
ChatRecent(conversation_history, max_history_turns) ==
    PyFrom(conversation_history, -max_history_turns)

\* app_llm_prompt_helpers_Version2.py lines 5-60
build_chat_messages(user_query, retrieved_chunks, conversation_history, max_history_turns, max_chunks) ==
    <<[role |-> "system", content |-> "instructions"],
      [role |-> "system", content |-> PyUpTo(retrieved_chunks, max_chunks)]>>
    \o [k \in 1..Len(ChatRecent(conversation_history, max_history_turns)) |->
          [role |-> ChatRecent(conversation_history, max_history_turns)[k].role,
           content |-> ChatRecent(conversation_history, max_history_turns)[k].content]]
    \o <<[role |-> "user", content |-> user_query]>>

(***************************************************************************)
(* app.py: the request handlers over the globals.                          *)
(***************************************************************************)
\* the global `chunks`: None, or the list assigned at line 54
NoneChunks == [none |-> TRUE, list |-> <<>>]
SomeChunks(list) == [none |-> FALSE, list |-> list]

\* document_utils.py line 3: the defaults upload_pdf relies on
ChunkSize == 500
Overlap == 100
\* app.py line 280
TopK == 6

\* An uploaded file: its pages are given by their numbers of words (a page of
\* 0 words has blank text); word i of document d is the number d * 10000 + i.
NoFile == [id |-> 0, readable |-> FALSE, pages |-> <<>>]
Docs ==
    {[id |-> 1, readable |-> TRUE, pages |-> <<1>>],
     [id |-> 2, readable |-> TRUE, pages |-> <<450, 0, 400>>],
     [id |-> 3, readable |-> TRUE, pages |-> <<0>>],
     [id |-> 4, readable |-> FALSE, pages |-> <<>>]}

RECURSIVE SumSeq(_)
SumSeq(ns) == IF ns = <<>> THEN 0 ELSE Head(ns) + SumSeq(Tail(ns))

\* document_utils.py lines 20-24: the texts of the pages that are not blank
full_text(doc) ==
    LET keep == {p \in 1..Len(doc.pages) : doc.pages[p] > 0}
    IN  [p \in keep |-> doc.pages[p]]

\* document_utils.py lines 33-34: " ".join(full_text).split()
DocWords(doc) == [i \in 1..SumSeq(doc.pages) |-> doc.id * 10000 + i]

\* document_utils.py lines 15-68 on an uploaded file: the chunks, or the
\* exception raised (fitz.open on an unreadable file, line 30 on no text)
ExtractChunks(doc) ==
    IF ~doc.readable THEN [ok |-> FALSE, error |-> "cannot open", list |-> <<>>]
    ELSE IF DOMAIN full_text(doc) = {} THEN [ok |-> FALSE, error |-> "No text found in PDF", list |-> <<>>]
    ELSE [ok |-> TRUE, error |-> "", list |-> pdf_to_chunks(DocWords(doc), ChunkSize, Overlap)]

\* app.py line 54: the assignment to the global
KeepsOldChunks(old, new) == SomeChunks(old.list \o new)
StoredChunks(old, new) == SomeChunks(new)

\* app.py lines 42-74.  env is what the embedding side does in this request:
\* "ok", "load_fails" (line 60 raises), "encode_fails" (line 62 raises).
upload_pdf(file, env) ==
    /\ UNCHANGED <<scripted, ck, pb, thr>>
    /\ req' = [handler |-> "upload", file |-> file]
    /\ retrieved' = <<>> /\ span' = NoSpan
    /\ IF file = NoFile
       THEN /\ resp' = [handler |-> "upload", status |-> 400, error |-> "No file uploaded"]
            /\ calls' = <<>>
            /\ UNCHANGED <<chunks, faiss_index, embedding_model, last_ok>>
       ELSE LET x == ExtractChunks(file)
                new == StoredChunks(chunks, x.list)
                loads == embedding_model = None
                embeds == Encode(new.list)
                built == build_faiss_index(embeds)
            IN  IF ~x.ok
                THEN /\ resp' = [handler |-> "upload", status |-> 500, error |-> x.error]
                     /\ calls' = <<>>
                     /\ UNCHANGED <<chunks, faiss_index, embedding_model, last_ok>>
                ELSE IF loads /\ env = "load_fails"
                THEN /\ chunks' = new
                     /\ resp' = [handler |-> "upload", status |-> 500, error |-> "load"]
                     /\ calls' = <<[op |-> "load"]>>
                     /\ UNCHANGED <<faiss_index, embedding_model, last_ok>>
                ELSE IF env = "encode_fails" \/ ~built.ok
                THEN /\ chunks' = new
                     /\ embedding_model' = "loaded"
                     /\ resp' = [handler |-> "upload", status |-> 500, error |-> "encode"]
                     /\ calls' = (IF loads THEN <<[op |-> "load"]>> ELSE <<>>) \o <<[op |-> "encode"]>>
                     /\ UNCHANGED <<faiss_index, last_ok>>
                ELSE /\ chunks' = new
                     /\ embedding_model' = "loaded"
                     /\ faiss_index' = built.index
                     /\ last_ok' = file.id
                     /\ resp' = [handler |-> "upload", status |-> 200, error |-> "",
                                 chunk_count |-> Len(new.list)]
                     /\ calls' = (IF loads THEN <<[op |-> "load"]>> ELSE <<>>) \o <<[op |-> "encode"]>>

\* The JSON body of an ask request.  json: "none" (no body, invalid JSON or a
\* falsy JSON value: get_json(silent=True) or {} is {}), "nondict" (a truthy
\* JSON value that is no object), "dict".  question.t: "missing" (absent or
\* null), "falsy" (0, false, [], {}), "truthy" (a non-empty non-string),
\* "str" (the string question.s).
QMissing == [t |-> "missing", s |-> <<>>]
QStr(text) == [t |-> "str", s |-> text]
AskBody(json, question, history) == [json |-> json, question |-> question, history |-> history]

\* app.py lines 267-268: msg, or the AttributeError the lines raise outside
\* the try block (answered by the handler of line 20 with a 500)
QuestionText(body) ==
    IF body.json = "nondict" THEN [ok |-> FALSE, msg |-> <<>>]
    ELSE IF body.json = "none" THEN [ok |-> TRUE, msg |-> <<>>]
    ELSE IF body.question.t = "truthy" THEN [ok |-> FALSE, msg |-> <<>>]
    ELSE IF body.question.t = "str" THEN [ok |-> TRUE, msg |-> Strip(body.question.s)]
    ELSE [ok |-> TRUE, msg |-> <<>>]

\* app.py line 273
ChunksAloneLoaded == ~chunks.none /\ chunks.list # <<>>
SessionLoaded ==
    /\ ~chunks.none /\ chunks.list # <<>>
    /\ ~faiss_index.none
    /\ embedding_model # None

\* app.py lines 213-246 on the 1-D integer array search_index returns: the
\* array is no tuple or list, so lines 236-240 turn it into a list of ints
_normalize_and_extract_indices(inds) == [k \in 1..Len(inds) |-> inds[k]]

\* app.py line 286: an index is kept when 0 <= i < len(chunks)
AcceptsMinusOne(i, n) == -1 <= i /\ i < n
ValidIndex(i, n) == 0 <= i /\ i < n

\* Python list indexing chunks[i]: a negative index counts from the end
PyItem(list, i) == IF i < 0 THEN list[Len(list) + i + 1] ELSE list[i + 1]

RECURSIVE Retrieve(_, _)
\* app.py line 286
Retrieve(list, inds_list) ==
    IF inds_list = <<>> THEN <<>>
    ELSE (IF ValidIndex(Head(inds_list), Len(list))
          THEN <<PyItem(list, Head(inds_list))>> ELSE <<>>)
         \o Retrieve(list, Tail(inds_list))

\* app.py lines 154, 321 and 336: [:120]
SnippetLimit == 120

\* app.py lines 144-158: the text after the first label "Source 1:" up to the
\* end of its line, stripped and cut to 120 characters.  The pattern needs one
\* character after the label, and the line takes in every later label.  A
\* source is given by its number of characters.
_extract_sources_from_text(text) ==
    LET r == Find(text, "R", 0)
        snippet == Strip(PyFrom(text, r + 1))
    IN  IF r = -1 \/ r + 1 = Len(text) THEN <<>>
        ELSE <<[chars |-> Min(Chars(snippet), SnippetLimit)]>>

\* app.py lines 320-321: str(s)[:120] for each entry of the JSON's list
CleanedSources(sources) ==
    [k \in 1..Len(sources) |-> [chars |-> Min(sources[k], SnippetLimit)]]

\* document_utils.py line 34 and 47: a word has at least one character (here
\* exactly one) and a chunk text is its words joined by single spaces
WordChars(word) == 1
RECURSIVE WordsChars(_, _, _)
\* the characters of words lo..hi of a chunk
WordsChars(chunk, lo, hi) ==
    IF lo > hi THEN 0
    ELSE IF lo = hi THEN WordChars(chunk[lo])
    ELSE LET mid == (lo + hi) \div 2
         IN  WordsChars(chunk, lo, mid) + WordsChars(chunk, mid + 1, hi)
ChunkChars(chunk) == WordsChars(chunk, 1, Len(chunk)) + Max(Len(chunk) - 1, 0)

\* app.py lines 333-338: "Source i: " and the first 120 characters of each of
\* at most five retrieved chunks
FallbackSources(rl) ==
    [k \in 1..Min(5, Len(rl)) |->
        [label |-> k, start |-> rl[k][1],
         chars |-> 7 + 1 + 2 + Min(ChunkChars(rl[k]), SnippetLimit)]]

PyNone == [ok |-> TRUE, kind |-> "NoneType", answer |-> <<>>, sources |-> <<>>]

\* line 310: structured is not None
IsNotNone(parsed) == parsed.ok /\ parsed.kind # "NoneType"

\* app.py lines 312-316: the text before the span when it is not blank, else
\* the "answer" field of the JSON when it is a str, else ""
AnswerBeforeJsonOnly(raw, found) ==
    IF found.start > 0 THEN Strip(PyUpTo(raw, found.start)) ELSE <<>>
NaturalAnswer(raw, found) ==
    LET before == IF found.start > 0 THEN Strip(PyUpTo(raw, found.start)) ELSE <<>>
    IN  IF before # <<>> THEN before ELSE Strip(found.parsed.answer)

\* app.py lines 304-351 on the non-blank reply `raw`
AskReply(raw, rl) ==
    LET found == _extract_json_span(raw)
        heuristic == _extract_sources_from_text(raw)
    IN  IF IsNotNone(found.parsed)
        THEN IF found.parsed.kind # "dict"
             THEN \* structured.get raises AttributeError, caught at line 348
                  [handler |-> "ask", status |-> 500, error |-> "no attribute 'get'"]
             ELSE [handler |-> "ask", status |-> 200, error |-> "",
                   answer |-> NaturalAnswer(raw, found),
                   structured |-> found.parsed,
                   sources |-> CleanedSources(found.parsed.sources), raw |-> raw]
        ELSE [handler |-> "ask", status |-> 200, error |-> "",
              answer |-> Strip(raw), structured |-> PyNone,
              sources |-> IF heuristic = <<>> /\ rl # <<>>
                          THEN FallbackSources(rl) ELSE heuristic,
              raw |-> raw]

AskEnvs == {"ok", "encode_fails"}

\* what query_ollama can return, and the calls it then made, when the two
\* ways to reach the model behave as in `apis` and `clis`
OllamaRuns(prompt, apis, clis) ==
    {query_ollama(prompt, api, cli) : api \in apis, cli \in clis}

\* app.py lines 249-351.  What embedding_model.encode does ("ok" or
\* "encode_fails"), the ids index.search returns and the outcomes of the two
\* ways to reach the model (among `apis` and `clis`) are chosen where the
\* handler gets to them.
ask(body, apis, clis) ==
    LET q == QuestionText(body)
    IN  /\ UNCHANGED <<chunks, faiss_index, embedding_model, last_ok, scripted, ck, pb, thr>>
        /\ req' = [handler |-> "ask", body |-> body]
        /\ IF ~q.ok
           THEN /\ resp' = [handler |-> "ask", status |-> 500, error |-> "Server error"]
                /\ calls' = <<>> /\ retrieved' = <<>> /\ span' = NoSpan
           ELSE IF q.msg = <<>>
           THEN /\ resp' = [handler |-> "ask", status |-> 400, error |-> "Empty question"]
                /\ calls' = <<>> /\ retrieved' = <<>> /\ span' = NoSpan
           ELSE IF ~SessionLoaded
           THEN /\ resp' = [handler |-> "ask", status |-> 400, error |-> "No PDF uploaded yet"]
                /\ calls' = <<>> /\ retrieved' = <<>> /\ span' = NoSpan
           ELSE \E enc \in AskEnvs :
                IF enc = "encode_fails"
                THEN /\ resp' = [handler |-> "ask", status |-> 500, error |-> "encode"]
                     /\ calls' = <<[op |-> "encode"]>> /\ retrieved' = <<>> /\ span' = NoSpan
                ELSE \E inds \in search_index(faiss_index, TopK) :
                     LET rl == Retrieve(chunks.list, _normalize_and_extract_indices(inds))
                         prompt == _build_soft_prompt(q.msg, rl, body.history, TopK)
                     IN  \E llm \in OllamaRuns(prompt, apis, clis) :
                         /\ calls' = <<[op |-> "encode"], [op |-> "search", returned |-> inds]>>
                                     \o llm.calls
                         /\ retrieved' = rl
                         /\ IF llm.result.type = "None" \/ Strip(llm.result.text) = <<>>
                            THEN /\ resp' = [handler |-> "ask", status |-> 502,
                                             error |-> "No response from LLM (check Ollama server)."]
                                 /\ span' = NoSpan
                            ELSE /\ resp' = AskReply(llm.result.text, rl)
                                 /\ span' = _extract_json_span(llm.result.text)

\* app.py lines 32-39
greet(llm) ==
    /\ UNCHANGED <<chunks, faiss_index, embedding_model, last_ok, scripted, ck, pb, thr>>
    /\ req' = [handler |-> "greet"]
    /\ resp' = [handler |-> "greet", status |-> 200,
                greeting |-> IF Truthy(llm.result) THEN llm.result.text ELSE <<>>]
    /\ calls' = llm.calls
    /\ retrieved' = <<>> /\ span' = NoSpan

\* app.py lines 369-378
debug_test_ollama(llm) ==
    /\ UNCHANGED <<chunks, faiss_index, embedding_model, last_ok, scripted, ck, pb, thr>>
    /\ req' = [handler |-> "debug_test_ollama"]
    /\ resp' = [handler |-> "debug_test_ollama", status |-> 200,
                response |-> llm.result,
                working |-> llm.result.type # "None" /\ Strip(llm.result.text) # <<>>]
    /\ calls' = llm.calls
    /\ retrieved' = <<>> /\ span' = NoSpan

\* app.py lines 355-366
debug_chunks ==
    /\ UNCHANGED <<chunks, faiss_index, embedding_model, last_ok, scripted, ck, pb, thr>>
    /\ req' = [handler |-> "debug_chunks"]
    /\ resp' = IF chunks.none \/ chunks.list = <<>>
               THEN [handler |-> "debug_chunks", status |-> 200, error |-> "No PDF uploaded"]
               ELSE [handler |-> "debug_chunks", status |-> 200, error |-> "",
                     total_chunks |-> Len(chunks.list)]
    /\ calls' = <<>>
    /\ retrieved' = <<>> /\ span' = NoSpan

(***************************************************************************)
(* The service: requests handled one at a time.                            *)
(***************************************************************************)
MaxReplyLen == 3

UploadEnvs == {"ok", "load_fails", "encode_fails"}

Questions ==
    {QMissing, [t |-> "falsy", s |-> <<>>], [t |-> "truthy", s |-> <<>>]}
    \cup {QStr(t) : t \in {<<>>, <<" ">>, <<" ", " ">>, <<"w">>, <<" ", "w", " ">>}}
OneTurn == <<[role |-> "user", content |-> 1]>>
Bodies ==
    {AskBody("none", QMissing, <<>>), AskBody("nondict", QMissing, <<>>),
     AskBody("dict", QStr(<<"w">>), OneTurn), AskBody("dict", QMissing, OneTurn)}
    \cup {AskBody("dict", q, <<>>) : q \in Questions}

ApiError == [kind |-> "error", text |-> <<>>]
ApiObj == [kind |-> "obj", text |-> <<>>]
ApiText(t) == [kind |-> "text", text |-> t]
CliError == [kind |-> "error", text |-> <<>>]
CliOut(t) == [kind |-> "out", text |-> t]

SessionReplies ==
    {<<>>, <<" ">>, <<"w">>, <<" ", "w", " ">>, <<"w", " ", "{", "A", "}">>, <<"S", "L", "E">>,
     <<"{", "Q", "}">>, <<"w", "R", " ", "W", "w">>, <<"R">>}
SessionApis == {ApiError, ApiObj} \cup {ApiText(t) : t \in SessionReplies}
SessionClis == {CliError} \cup {CliOut(t) : t \in {<<>>, <<" ">>, <<"w", " ">>}}

Init == IdleSession /\ scripted = <<>> /\ ck = CkIdle /\ pb = [fn |-> "none"]

Upload == \E file \in Docs \cup {NoFile}, env \in UploadEnvs : upload_pdf(file, env)
Ask == \E body \in Bodies : ask(body, SessionApis, SessionClis)
\* app.py lines 35 and 371: the fixed prompts of the two handlers
GreetPrompt == <<[kind |-> "greet"]>>
TestPrompt == <<[kind |-> "test"]>>
Greet == \E llm \in OllamaRuns(GreetPrompt, SessionApis, SessionClis) : greet(llm)
DebugTestOllama ==
    \E llm \in OllamaRuns(TestPrompt, SessionApis, SessionClis) : debug_test_ollama(llm)
DebugChunks == debug_chunks

Next == Upload \/ Ask \/ Greet \/ DebugTestOllama \/ DebugChunks
Spec == Init /\ [][Next]_vars

\* The same service with one readable document and a well-formed question,
\* the model server answering with any text of at most MaxReplyLen tokens,
\* alone, after some natural language, or after natural language and the
\* opening of a delimited JSON part.
ReplyPrefixes ==
    {<<>>, <<"w">>, <<"w", "S">>, <<"w", "J">>}
Replies(n) == {p \o t : p \in ReplyPrefixes, t \in SeqsUpTo(Tokens, n)}
ParseDoc == [id |-> 1, readable |-> TRUE, pages |-> <<2>>]
InitParse == IdleSession /\ scripted \in Replies(MaxReplyLen) /\ ck = CkIdle /\ pb = [fn |-> "none"]
UploadParse == upload_pdf(ParseDoc, "ok")
AskParse == ask(AskBody("dict", QStr(<<"w">>), <<>>), {ApiText(scripted)}, {CliError})
NextParse == UploadParse \/ AskParse
SpecParse == InitParse /\ [][NextParse]_vars


(***************************************************************************)
(* The prompt builders on their own: every history of at most MaxHistory   *)
(* turns, every max_history_turns in 0..MaxTurnsParam.                     *)
(***************************************************************************)
Roles == {"user", "assistant"}
PromptHistories ==
    {[k \in 1..Len(r) |-> [role |-> r[k], content |-> k]] : r \in SeqsUpTo(Roles, MaxHistory)}
PromptChunks == {<<>>, <<<<"a", "b">>>>}

PbInputs ==
    {[fn |-> "none", user_question |-> <<"w">>, retrieved_chunks |-> c,
      conversation_history |-> h, max_history_turns |-> n, out |-> <<>>] :
        c \in PromptChunks, h \in PromptHistories, n \in 0..MaxTurnsParam}

BuildSoftPrompt ==
    /\ pb.fn = "none"
    /\ pb' = [pb EXCEPT !.fn = "_build_soft_prompt",
                        !.out = _build_soft_prompt(pb.user_question, pb.retrieved_chunks,
                                                   pb.conversation_history, TopK)]
    /\ UNCHANGED <<chunks, faiss_index, embedding_model, req, resp, calls, retrieved, span,
                   last_ok, scripted, ck, thr>>

BuildChatMessages ==
    /\ pb.fn = "none"
    /\ pb' = [pb EXCEPT !.fn = "build_chat_messages",
                        !.out = build_chat_messages(pb.user_question, pb.retrieved_chunks,
                                                    pb.conversation_history,
                                                    pb.max_history_turns, TopK)]
    /\ UNCHANGED <<chunks, faiss_index, embedding_model, req, resp, calls, retrieved, span,
                   last_ok, scripted, ck, thr>>

InitPrompt == IdleSession /\ scripted = <<>> /\ ck = CkIdle /\ pb \in PbInputs
NextPrompt == BuildSoftPrompt \/ BuildChatMessages
SpecPrompt == InitPrompt /\ [][NextPrompt]_vars

(***************************************************************************)
(* Claims about the session (Spec).                                        *)
(***************************************************************************)
DocOfWord(word) == word \div 10000
\* the chunk list of a document, as pdf_to_chunks makes it with its defaults
ChunksOfDoc(doc) == pdf_to_chunks(DocWords(doc), ChunkSize, Overlap)

\* C1: once an upload responds 200 the stored chunk list is exactly the chunk
\* list of that upload's document and the stored index holds exactly one vector
\* per stored chunk (its size is the chunk_count returned); whatever request comes
\* later, every vector of the index belongs to the document of the last upload
\* answered 200 and every chunk an ask retrieves is one of the stored chunks.
C1_UploadReplacesSession ==
    /\ (resp.handler = "upload" /\ resp.status = 200) =>
          /\ ~chunks.none /\ chunks.list = ChunksOfDoc(req.file)
          /\ ~faiss_index.none
          /\ ntotal(faiss_index) = Len(chunks.list)
          /\ resp.chunk_count = ntotal(faiss_index)
          /\ \A k \in 1..Len(chunks.list) :
                /\ faiss_index.vectors[k] = Embed(chunks.list[k])
                /\ \A j \in 1..Len(chunks.list[k]) : DocOfWord(chunks.list[k][j]) = req.file.id
    /\ \A k \in 1..ntotal(faiss_index) : DocOfWord(faiss_index.vectors[k].first) = last_ok
    /\ \A k \in 1..Len(retrieved) : \E j \in 1..Len(chunks.list) : retrieved[k] = chunks.list[j]

\* a 200 upload of the one-chunk document handled while the embedding model was
\* already loaded, i.e. after an earlier upload got as far as storing its chunks
C1_Witness ==
    /\ resp.handler = "upload" /\ resp.status = 200
    /\ req.file.id = 1
    /\ calls = <<[op |-> "encode"]>>

QuestionBlank(body) ==
    \/ body.json = "none"
    \/ body.json = "dict" /\ body.question.t = "missing"
    \/ body.json = "dict" /\ body.question.t = "str"
          /\ \A k \in 1..Len(body.question.s) : body.question.s[k] = " "
QuestionNonEmpty(body) ==
    /\ body.json = "dict" /\ body.question.t = "str"
    /\ \E k \in 1..Len(body.question.s) : body.question.s[k] # " "

\* C2: ask answers 400 'Empty question' to a missing, empty or whitespace-only
\* question whether or not a document is loaded, and 400 'No PDF uploaded yet' to
\* a non-empty question when no upload has ever succeeded; in both cases neither
\* the embedding model, nor the index, nor the model client is called.
C2_AskRejectsEarly ==
    resp.handler = "ask" =>
        /\ QuestionBlank(req.body) =>
              resp.status = 400 /\ resp.error = "Empty question" /\ calls = <<>>
        /\ (QuestionNonEmpty(req.body) /\ last_ok = 0) =>
              resp.status = 400 /\ resp.error = "No PDF uploaded yet" /\ calls = <<>>

\* a non-empty question refused although chunks and the embedding model are
\* there (left by an upload that failed while embedding)
C2_Witness ==
    /\ resp.handler = "ask" /\ QuestionNonEmpty(req.body) /\ last_ok = 0
    /\ resp.error = "No PDF uploaded yet"
    /\ ~chunks.none /\ embedding_model # None

IsFalsyReturn(v) == v.type = "None" \/ (v.type = "str" /\ v.text = <<>>)

\* C5: the command line is invoked only after the API attempt has returned, and
\* only if that attempt produced None or empty text; when the API produced
\* non-empty text the command line is not invoked and the result is that text
\* stripped; the result is None only if both attempts failed.
C5_ApiFirstThenCommandLine ==
    /\ \A k \in 1..Len(calls) :
          /\ calls[k].op = "cli" =>
                k > 1 /\ calls[k - 1].op = "api" /\ IsFalsyReturn(calls[k - 1].returned)
          /\ (calls[k].op = "api" /\ calls[k].returned.type = "str"
                /\ calls[k].returned.text # <<>>) =>
                /\ \A j \in 1..Len(calls) : calls[j].op # "cli"
                /\ resp.handler = "debug_test_ollama" =>
                      resp.response = RetStr(Strip(calls[k].returned.text))
    /\ (resp.handler = "debug_test_ollama" /\ resp.response.type = "None") =>
          /\ Len(calls) = 2
          /\ calls[1].op = "api" /\ IsFalsyReturn(calls[1].returned)
          /\ calls[2].op = "cli" /\ calls[2].returned.type = "None"

\* the API answered with empty text and the command line then gave the result
C5_Witness ==
    /\ resp.handler = "debug_test_ollama"
    /\ Len(calls) = 2
    /\ calls[1].returned = RetStr(<<>>)
    /\ calls[2].op = "cli" /\ resp.response = RetStr(<<"w">>)

\* the ids a search returned in the last request, <<>> when it searched nothing
SearchReturned ==
    IF Len(calls) >= 2 /\ calls[2].op = "search" THEN calls[2].returned ELSE <<>>
\* the places of the returned ids that are chunk indices
KeptPlaces == {k \in 1..Len(SearchReturned) :
                  0 <= SearchReturned[k] /\ SearchReturned[k] < Len(chunks.list)}

\* C9: the retrieved list has at most top_k = 6 entries; each is chunks[i] for an
\* id i the search returned with 0 <= i < len(chunks), in the order the search
\* returned them; -1 padding and out-of-range ids are dropped.
C9_RetrievedAreStoredChunks ==
    resp.handler = "ask" =>
        /\ Len(retrieved) <= TopK
        /\ Len(retrieved) = Cardinality(KeptPlaces)
        /\ \A k \in KeptPlaces :
              retrieved[Cardinality({j \in KeptPlaces : j <= k})]
                  = chunks.list[SearchReturned[k] + 1]

\* an ask whose search returned padding and ids beyond the stored chunk list
\* (the index is older than the chunks), and still retrieved a chunk
C9_Witness ==
    /\ resp.handler = "ask" /\ retrieved # <<>>
    /\ \E k \in 1..Len(SearchReturned) : SearchReturned[k] = -1
    /\ \E k \in 1..Len(SearchReturned) : SearchReturned[k] >= Len(chunks.list)
    /\ SearchReturned[1] # 0

(***************************************************************************)
(* Claims about the chunker (SpecChunk).                                   *)
(***************************************************************************)
\* the parameters the chunking claims cover: chunk_size > overlap >= 0
CkCovered == ck.pc \in {"loop", "done"} /\ ck.chunk_size > ck.overlap /\ ck.overlap >= 0

LastN(s, n) == IF n >= Len(s) THEN s ELSE SubSeq(s, Len(s) - n + 1, Len(s))
FirstN(s, n) == IF n >= Len(s) THEN s ELSE SubSeq(s, 1, n)

\* chunk k (1-based) is the slice of the word list that starts at word
\* (k-1) * (chunk_size - overlap)
CkSliceAt(k) ==
    LET start == (k - 1) * (ck.chunk_size - ck.overlap)
    IN  /\ start < Len(ck.words)
        /\ ck.chunks[k] = SubSeq(ck.words, start + 1, start + Len(ck.chunks[k]))
        /\ start + Len(ck.chunks[k]) <= Len(ck.words)

\* C3 (as claimed): for chunk_size > overlap >= 0 every chunk returned by
\* pdf_to_chunks is a contiguous slice of the word list of exactly
\* chunk_size words.
C3_AllChunksFullSize ==
    (CkCovered /\ ck.pc = "done") =>
        \A k \in 1..Len(ck.chunks) :
            CkSliceAt(k) /\ Len(ck.chunks[k]) = ck.chunk_size

\* C3 (amended): for chunk_size > overlap >= 0 every chunk is a contiguous,
\* non-empty slice of the word list of at most chunk_size words, and of
\* exactly chunk_size words unless the slice ends at the end of the word list.
C3_ChunksAtMostSize ==
    CkCovered =>
        \A k \in 1..Len(ck.chunks) :
            /\ CkSliceAt(k)
            /\ Len(ck.chunks[k]) >= 1
            /\ Len(ck.chunks[k]) <= ck.chunk_size
            /\ Len(ck.chunks[k]) < ck.chunk_size =>
                   (k - 1) * (ck.chunk_size - ck.overlap) + Len(ck.chunks[k]) = Len(ck.words)

\* a finished run with a full chunk followed by a chunk cut short by the end
C3_Witness ==
    /\ CkCovered /\ ck.pc = "done"
    /\ Len(ck.chunks) >= 2
    /\ Len(ck.chunks[1]) = ck.chunk_size
    /\ Len(ck.chunks[Len(ck.chunks)]) < ck.chunk_size

\* C4 (as claimed): for chunk_size > overlap >= 0 and consecutive chunks k, k+1,
\* chunk k+1 starts chunk_size - overlap words after chunk k, and the last
\* `overlap` words of chunk k are the first `overlap` words of chunk k+1.
C4_OverlapExact ==
    (CkCovered /\ ck.pc = "done") =>
        \A k \in 1..(Len(ck.chunks) - 1) :
            /\ CkSliceAt(k) /\ CkSliceAt(k + 1)
            /\ LastN(ck.chunks[k], ck.overlap) = FirstN(ck.chunks[k + 1], ck.overlap)

\* C4 (amended): chunk k+1 starts chunk_size - overlap words after chunk k; when
\* chunk k has chunk_size words its last `overlap` words are the first `overlap`
\* words of chunk k+1; when chunk k is cut short by the end of the word list,
\* chunk k+1 has fewer than `overlap` words and is the tail of chunk k.
C4_OverlapUpToTail ==
    CkCovered =>
        \A k \in 1..(Len(ck.chunks) - 1) :
            /\ CkSliceAt(k) /\ CkSliceAt(k + 1)
            /\ Len(ck.chunks[k]) = ck.chunk_size =>
                   /\ Len(ck.chunks[k + 1]) >= ck.overlap
                   /\ LastN(ck.chunks[k], ck.overlap) = FirstN(ck.chunks[k + 1], ck.overlap)
            /\ Len(ck.chunks[k]) < ck.chunk_size =>
                   /\ Len(ck.chunks[k + 1]) < ck.overlap
                   /\ ck.chunks[k + 1] = LastN(ck.chunks[k], Len(ck.chunks[k + 1]))

\* a finished run with overlap > 0 holding a full pair and a cut-short pair
C4_Witness ==
    /\ CkCovered /\ ck.pc = "done" /\ ck.overlap > 0
    /\ \E k \in 1..(Len(ck.chunks) - 1) : Len(ck.chunks[k]) = ck.chunk_size
    /\ \E k \in 1..(Len(ck.chunks) - 1) : Len(ck.chunks[k]) < ck.chunk_size

(***************************************************************************)
(* Claims about the reply parser (SpecParse) and the prompt builders       *)
(* (SpecPrompt).                                                           *)
(***************************************************************************)
\* the reply ask gets from query_ollama when the API answers `scripted`
ModelReply == Strip(scripted)
\* ask got as far as calling the model in the last request
AskCalledModel == resp.handler = "ask" /\ Len(calls) >= 3 /\ calls[3].op = "api"

\* a JSON object was extracted from the reply
ObjectExtracted == span.parsed.ok /\ span.parsed.kind = "dict"

\* C6: with a document loaded and a non-empty question, for every non-blank model
\* reply ask responds 200; whenever no JSON object can be extracted from the
\* reply, the response has answer = the reply stripped, structured = null and
\* raw = the reply.
C6_ReplyNeverAnError ==
    (AskCalledModel /\ ModelReply # <<>>) =>
        /\ resp.status = 200
        /\ ~ObjectExtracted =>
              /\ resp.answer = Strip(ModelReply)
              /\ resp.structured = PyNone
              /\ resp.raw = ModelReply

JsonOrDelimiter == {"{", "}", "A", "K", "L", "N", "a", "S", "E", "J", "F"}

\* C7: whenever a JSON object is extracted from a reply that starts with natural
\* language, the response's answer is that natural-language text, it holds no
\* part of the JSON text and none of its delimiters (<<<JSON_START>>>, ```json),
\* structured is the parsed object and raw is the unmodified reply.
C7_AnswerCleanOfJson ==
    (AskCalledModel /\ resp.status = 200 /\ ObjectExtracted /\ ModelReply[1] = "w") =>
        /\ \A k \in 1..Len(resp.answer) : resp.answer[k] \notin JsonOrDelimiter
        /\ \E n \in 1..Len(ModelReply) : resp.answer = Strip(SubSeq(ModelReply, 1, n))
        /\ resp.structured = span.parsed
        /\ resp.raw = ModelReply

\* C8: _extract_json_span returns either (None, -1, -1), or (obj, start, end) with
\* 0 <= start < end <= len(text), obj a JSON object (dict) and text[start:end],
\* surrounding whitespace ignored, the JSON text that parses to obj.
C8_SpanWellFormed ==
    (AskCalledModel /\ ModelReply # <<>>) =>
        \/ span = NoSpan
        \/ /\ span.parsed.ok /\ span.parsed.kind = "dict"
           /\ 0 <= span.start /\ span.start < span.end /\ span.end <= Len(ModelReply)
           /\ json_loads(SubSeq(ModelReply, span.start + 1, span.end)) = span.parsed

\* C10: _build_soft_prompt includes exactly the last min(8, len(history)) turns,
\* in order, after the document context and before the final question;
\* build_chat_messages includes exactly the last
\* min(max_history_turns, len(history)) turns for every max_history_turns >= 0,
\* so its result has 2 + min(max_history_turns, len(history)) + 1 messages with
\* the system message first and the user query last.
C10_RecentTurnsKept ==
    LET h == pb.conversation_history
        n == Len(h)
        soft == Min(SoftHistoryTurns, n)
        chat == Min(pb.max_history_turns, n)
    IN  /\ pb.fn = "_build_soft_prompt" =>
              /\ Len(pb.out) = 2 + soft + 1
              /\ pb.out[1].kind = "system" /\ pb.out[2].kind = "context"
              /\ pb.out[Len(pb.out)].kind = "question"
              /\ \A k \in 1..soft :
                    /\ pb.out[2 + k].kind = "history"
                    /\ pb.out[2 + k].role = h[n - soft + k].role
                    /\ pb.out[2 + k].content = h[n - soft + k].content
        /\ pb.fn = "build_chat_messages" =>
              /\ Len(pb.out) = 2 + chat + 1
              /\ pb.out[1] = [role |-> "system", content |-> "instructions"]
              /\ pb.out[Len(pb.out)] = [role |-> "user", content |-> pb.user_question]
              /\ \A k \in 1..chat :
                    /\ pb.out[2 + k].role = h[n - chat + k].role
                    /\ pb.out[2 + k].content = h[n - chat + k].content

(***************************************************************************)
(* Claims about failed uploads (Spec).                                     *)
(***************************************************************************)
\* C11: a failed upload leaves the session as it was, so in every reachable
\* state the stored index, when there is one, was built from exactly the stored
\* chunks: there are stored chunks, and the index holds the embedding of each
\* of them, in order, and nothing else.
C11_IndexBuiltFromStoredChunks ==
    ~faiss_index.none =>
        /\ ~chunks.none
        /\ faiss_index.vectors = Encode(chunks.list)

(***************************************************************************)
(* Two requests at once (SpecConc).  app.run serves each request in its    *)
(* own thread; upload_pdf and ask share the module globals without a lock. *)
(* One thread handles upload requests, the other ask requests, one after   *)
(* the other; a step is one access to a global or one call of a library.   *)
(* req and resp are the request begun last and the response sent last;     *)
(* retrieved is the local of the ask in progress.                          *)
(***************************************************************************)
ConcDocs == {d \in Docs : d.id \in {1, 2, 3}}
ConcBody == AskBody("dict", QStr(<<"w">>), <<>>)

UpThread(pc, file, embeds) == [pc |-> pc, file |-> file, embeds |-> embeds]
UpDone(response) ==
    /\ resp' = response
    /\ thr' = [thr EXCEPT !.up = [pc |-> "idle"]]

\* app.py lines 44-50
UpBegin ==
    /\ thr.up.pc = "idle"
    /\ \E file \in ConcDocs \cup {NoFile} :
          /\ req' = [handler |-> "upload", file |-> file]
          /\ IF file = NoFile
             THEN UpDone([handler |-> "upload", status |-> 400, error |-> "No file uploaded"])
             ELSE /\ thr' = [thr EXCEPT !.up = UpThread("extract", file, <<>>)]
                  /\ UNCHANGED resp
    /\ UNCHANGED <<chunks, faiss_index, embedding_model, calls, retrieved, span,
                   last_ok, scripted, ck, pb>>

\* app.py line 54: the chunks are extracted and the global is assigned
UpExtract ==
    /\ thr.up.pc = "extract"
    /\ LET x == ExtractChunks(thr.up.file)
       IN  IF ~x.ok
           THEN /\ UpDone([handler |-> "upload", status |-> 500, error |-> x.error])
                /\ UNCHANGED chunks
           ELSE /\ chunks' = StoredChunks(chunks, x.list)
                /\ thr' = [thr EXCEPT !.up.pc = "load"]
                /\ UNCHANGED resp
    /\ UNCHANGED <<faiss_index, embedding_model, req, calls, retrieved, span,
                   last_ok, scripted, ck, pb>>

\* app.py lines 57-60
UpLoad ==
    /\ thr.up.pc = "load"
    /\ IF embedding_model # None
       THEN /\ thr' = [thr EXCEPT !.up.pc = "encode"]
            /\ UNCHANGED <<embedding_model, resp>>
       ELSE \E env \in {"ok", "load_fails"} :
            IF env = "load_fails"
            THEN /\ UpDone([handler |-> "upload", status |-> 500, error |-> "load"])
                 /\ UNCHANGED embedding_model
            ELSE /\ embedding_model' = "loaded"
                 /\ thr' = [thr EXCEPT !.up.pc = "encode"]
                 /\ UNCHANGED resp
    /\ UNCHANGED <<chunks, faiss_index, req, calls, retrieved, span,
                   last_ok, scripted, ck, pb>>

\* app.py line 62: the global chunks is read and embedded
UpEncode ==
    /\ thr.up.pc = "encode"
    /\ \E env \in {"ok", "encode_fails"} :
          IF env = "encode_fails"
          THEN UpDone([handler |-> "upload", status |-> 500, error |-> "encode"])
          ELSE /\ thr' = [thr EXCEPT !.up = UpThread("build", thr.up.file, Encode(chunks.list))]
               /\ UNCHANGED resp
    /\ UNCHANGED <<chunks, faiss_index, embedding_model, req, calls, retrieved, span,
                   last_ok, scripted, ck, pb>>

\* app.py line 63: the index is built and the global is assigned
UpBuild ==
    /\ thr.up.pc = "build"
    /\ LET built == build_faiss_index(thr.up.embeds)
       IN  IF ~built.ok
           THEN /\ UpDone([handler |-> "upload", status |-> 500, error |-> "encode"])
                /\ UNCHANGED faiss_index
           ELSE /\ faiss_index' = built.index
                /\ thr' = [thr EXCEPT !.up.pc = "respond"]
                /\ UNCHANGED resp
    /\ UNCHANGED <<chunks, embedding_model, req, calls, retrieved, span,
                   last_ok, scripted, ck, pb>>

\* app.py lines 64-65
UpRespond ==
    /\ thr.up.pc = "respond"
    /\ UpDone([handler |-> "upload", status |-> 200, error |-> "",
               chunk_count |-> Len(chunks.list)])
    /\ last_ok' = thr.up.file.id
    /\ UNCHANGED <<chunks, faiss_index, embedding_model, req, calls, retrieved, span,
                   scripted, ck, pb>>

\* the locals of ask: the index object search_index was given, inds_list, the
\* place k of the comprehension of line 286 in inds_list, and the ids it kept
AskThread(pc, searched, inds_list, k, kept) ==
    [pc |-> pc, searched |-> searched, inds_list |-> inds_list, k |-> k, kept |-> kept]
AskDone(response) ==
    /\ resp' = response
    /\ thr' = [thr EXCEPT !.ask = [pc |-> "idle"]]

\* app.py lines 267-274
AskBegin ==
    /\ thr.ask.pc = "idle"
    /\ req' = [handler |-> "ask", body |-> ConcBody]
    /\ retrieved' = <<>>
    /\ IF ~SessionLoaded
       THEN AskDone([handler |-> "ask", status |-> 400, error |-> "No PDF uploaded yet"])
       ELSE /\ thr' = [thr EXCEPT !.ask = AskThread("search", NoneIndex, <<>>, 0, <<>>)]
            /\ UNCHANGED resp
    /\ UNCHANGED <<chunks, faiss_index, embedding_model, calls, span,
                   last_ok, scripted, ck, pb>>

\* app.py lines 279-284: the global faiss_index is read and searched
AskSearch ==
    /\ thr.ask.pc = "search"
    /\ \E enc \in AskEnvs :
          IF enc = "encode_fails"
          THEN AskDone([handler |-> "ask", status |-> 500, error |-> "encode"])
          ELSE \E inds \in search_index(faiss_index, TopK) :
               /\ thr' = [thr EXCEPT !.ask =
                             AskThread("check", faiss_index,
                                       _normalize_and_extract_indices(inds), 1, <<>>)]
               /\ UNCHANGED resp
    /\ UNCHANGED <<chunks, faiss_index, embedding_model, req, calls, retrieved, span,
                   last_ok, scripted, ck, pb>>

\* app.py line 286, the condition: the next id is tested against len(chunks),
\* read from the global
AskCheck ==
    /\ thr.ask.pc = "check"
    /\ thr' = [thr EXCEPT !.ask.pc =
                  IF thr.ask.k > Len(thr.ask.inds_list) THEN "answer"
                  ELSE IF ValidIndex(thr.ask.inds_list[thr.ask.k], Len(chunks.list))
                  THEN "item" ELSE "check",
                          !.ask.k =
                  IF thr.ask.k > Len(thr.ask.inds_list) THEN thr.ask.k
                  ELSE IF ValidIndex(thr.ask.inds_list[thr.ask.k], Len(chunks.list))
                  THEN thr.ask.k ELSE thr.ask.k + 1]
    /\ UNCHANGED <<chunks, faiss_index, embedding_model, req, resp, calls, retrieved, span,
                   last_ok, scripted, ck, pb>>

\* app.py line 286, the element: chunks[i], read from the global again; an id
\* past the end of the list now stored raises IndexError (lines 348-351)
AskItem ==
    /\ thr.ask.pc = "item"
    /\ LET i == thr.ask.inds_list[thr.ask.k]
       IN  IF i >= Len(chunks.list)
           THEN /\ AskDone([handler |-> "ask", status |-> 500,
                            error |-> "list index out of range"])
                /\ UNCHANGED retrieved
           ELSE /\ retrieved' = Append(retrieved, PyItem(chunks.list, i))
                /\ thr' = [thr EXCEPT !.ask.pc = "check", !.ask.k = thr.ask.k + 1,
                                      !.ask.kept = Append(thr.ask.kept, i)]
                /\ UNCHANGED resp
    /\ UNCHANGED <<chunks, faiss_index, embedding_model, req, calls, span,
                   last_ok, scripted, ck, pb>>

\* app.py lines 297-351: the prompt, the model and the reply
AskAnswer ==
    /\ thr.ask.pc = "answer"
    /\ \E llm \in OllamaRuns(_build_soft_prompt(<<"w">>, retrieved, <<>>, TopK),
                             {ApiError, ApiText(<<"w">>)}, {CliError}) :
          IF llm.result.type = "None" \/ Strip(llm.result.text) = <<>>
          THEN AskDone([handler |-> "ask", status |-> 502,
                        error |-> "No response from LLM (check Ollama server)."])
          ELSE AskDone(AskReply(llm.result.text, retrieved))
    /\ UNCHANGED <<chunks, faiss_index, embedding_model, req, calls, retrieved, span,
                   last_ok, scripted, ck, pb>>

InitConc == IdleSession /\ scripted = <<>> /\ ck = CkIdle /\ pb = [fn |-> "none"]
NextConc ==
    \/ UpBegin \/ UpExtract \/ UpLoad \/ UpEncode \/ UpBuild \/ UpRespond
    \/ AskBegin \/ AskSearch \/ AskCheck \/ AskItem \/ AskAnswer
SpecConc == InitConc /\ [][NextConc]_vars

\* C12: whenever an ask runs while an upload runs, every chunk text the ask has
\* read so far is the text whose vector it found: the chunk kept for a returned
\* id i is the chunk the searched index holds at place i, a chunk of the
\* document that index was built from.
C12_AskReadsSearchedDocument ==
    thr.ask.pc \in {"check", "item", "answer"} =>
        /\ Len(retrieved) = Len(thr.ask.kept)
        /\ \A j \in 1..Len(retrieved) :
              /\ thr.ask.kept[j] < ntotal(thr.ask.searched)
              /\ Embed(retrieved[j]) = thr.ask.searched.vectors[thr.ask.kept[j] + 1]

(***************************************************************************)
(* Claims about the answer and the sources of a reply (SpecParse).         *)
(***************************************************************************)
\* C13 as stated: every 200 response of ask carries a non-empty answer; a blank
\* model reply is answered 502.
C13_OkAnswerNonEmpty ==
    /\ (AskCalledModel /\ ModelReply = <<>>) => resp.status = 502
    /\ (resp.handler = "ask" /\ resp.status = 200) => resp.answer # <<>>

\* C13: a blank model reply is answered 502, and the answer of a 200 response
\* is empty exactly when a JSON object was extracted from the reply, no
\* non-blank text stands before it and the object has no non-blank "answer"
\* string.
C13_AnswerEmptyOnlyForBareObject ==
    /\ (AskCalledModel /\ ModelReply = <<>>) => resp.status = 502
    /\ (resp.handler = "ask" /\ resp.status = 200) =>
          (resp.answer = <<>> <=>
              /\ ObjectExtracted
              /\ Strip(PyUpTo(ModelReply, Max(span.start, 0))) = <<>>
              /\ Strip(span.parsed.answer) = <<>>)

\* a 200 response with an empty answer: the reply is a JSON object without an
\* "answer" member and nothing before it
C13_Witness ==
    /\ resp.handler = "ask" /\ resp.status = 200
    /\ ObjectExtracted /\ span.start = 0
    /\ resp.answer = <<>>

\* C14: every entry of the sources list of a 200 ask response has at most 120
\* characters, whether it comes from the parsed JSON, from a "Source N:" snippet
\* of the reply text or from the starts of the retrieved chunks.
C14_SourcesAtMost120Chars ==
    (resp.handler = "ask" /\ resp.status = 200) =>
        \A k \in 1..Len(resp.sources) : resp.sources[k].chars <= 120

(***************************************************************************)
(* Termination of the chunking loop (SpecChunkFair).                       *)
(***************************************************************************)
\* C15: for every word list and all integers chunk_size and overlap the loop of
\* pdf_to_chunks is eventually left; the step it uses is chunk_size - overlap
\* when chunk_size > overlap and chunk_size otherwise, and with a step that is
\* not positive the loop is left after its first iteration (i has moved once).
C15_ChunkLoopTerminates ==
    /\ [](ck.step = IF ck.chunk_size > ck.overlap
                    THEN ck.chunk_size - ck.overlap ELSE ck.chunk_size)
    /\ []((ck.step <= 0 /\ ck.i # 0) => (ck.pc = "done" /\ ck.i = ck.step))
    /\ <>(ck.pc = "done")

\* the loop left after its first iteration, which made one chunk, because
\* chunk_size <= 0 and overlap >= chunk_size gave a step that is not positive
C15_Witness ==
    /\ ck.pc = "done"
    /\ ck.chunk_size <= 0 /\ ck.overlap >= ck.chunk_size
    /\ ck.step <= 0 /\ ck.i = ck.step
    /\ Len(ck.chunks) = 1
====
